---- MODULE Spec2Model ----
(***************************************************************************)
(* ClimateGuard backend: the risk prediction service                       *)
(* (app/services/prediction_service.py), the /predict and                  *)
(* /predict/history routes (app/routers/predict.py) and the rate limiting  *)
(* middleware (app/middleware/rate_limiting.py).                           *)
(*                                                                         *)
(* Numbers.  Python floats are modelled as exact rationals held as         *)
(* integers over a fixed denominator:                                      *)
(*   normalised fields   n / NormScale                                     *)
(*   weights             w / WeightScale                                   *)
(*   random.uniform      v / MilliScale        (MilliScale = 1000*DrawDen) *)
(*   scores              s / ScoreScale                                    *)
(*   confidences         c / ConfScale                                     *)
(*   rounded values      r / 1000                                          *)
(* random.random() yields u / DrawDen for u in 0..DrawDen.                 *)
(***************************************************************************)
EXTENDS Integers, Sequences, FiniteSets, TLC

\* ------------------------------------------------------------------ bounds
\* random.random() is sampled on the grid 0/DrawDen .. DrawDen/DrawDen
DrawDen == 1
\* number of /predict requests served on the event loop
MaxCalls == 2
\* calls_per_minute of RateLimitingMiddleware (main.py passes 100)
CallsPerMinute == 2
\* requests the middleware passes to call_next
MaxRequests == 4
\* the clock stops at MaxTime seconds
MaxTime == 140

\* ------------------------------------------------------------------ scales
NormScale == 600
WeightScale == 10
MilliScale == 1000 * DrawDen
ScoreScale == 2 * NormScale * WeightScale * MilliScale
ConfScale == 1000 * MilliScale
ScoreUnit == ScoreScale \div 1000
ConfUnit == ConfScale \div 1000

Draws == 0..DrawDen

Min(a, b) == IF a < b THEN a ELSE b
Max(a, b) == IF a > b THEN a ELSE b

\* Python None for a string, and for a number
NoneStr == "<None>"
NoneNum == 0 - 1

\* ------------------------------------------------------------------ tables
\* RiskType / self.risk_factors.keys(), in insertion order
Hazards == <<"flood", "drought", "heatwave", "wildfire", "storm">>
HazardSet == {Hazards[i] : i \in 1..Len(Hazards)}

\* self.risk_factors, weights in tenths
risk_factors ==
    [flood    |-> [precipitation_weight |-> 4,  temperature_weight |-> 1,
                   humidity_weight |-> 3,  wind_weight |-> 2],
     drought  |-> [precipitation_weight |-> -5, temperature_weight |-> 3,
                   humidity_weight |-> -2, wind_weight |-> 1],
     heatwave |-> [precipitation_weight |-> -1, temperature_weight |-> 6,
                   humidity_weight |-> 2,  wind_weight |-> -1],
     wildfire |-> [precipitation_weight |-> -3, temperature_weight |-> 4,
                   humidity_weight |-> -2, wind_weight |-> 3],
     storm    |-> [precipitation_weight |-> 3,  temperature_weight |-> 1,
                   humidity_weight |-> 2,  wind_weight |-> 4]]

\* self.risk_thresholds, in thousandths
risk_thresholds == [low |-> 300, medium |-> 600, high |-> 800]
\* the literal 0.9 of _get_risk_level, in thousandths
CriticalThreshold == 900

\* ------------------------------------------------------------------ state
VARIABLES
    month,       \* datetime.now().month
    clock,       \* datetime.utcnow()
    rngPos,      \* state of the module-level generator of `random`: values taken so far
    regions,     \* rows of the regions table
    served,      \* requests answered
    active,      \* request being handled on the event loop, 0 when none
    drawsFrom,   \* per request: rngPos when its predict_risk began, -1 before
    request,     \* PredictionRequest of the active request
    pc,          \* position of the active request
    region,      \* predict_risk: region
    final_score, \* _calculate_risk_score called at line 77: <<final_score of line 141>>
    seasonal_adjustment, \* same call: <<seasonal_adjustment of line 144>>
    scores,      \* _determine_primary_risk: scores, values in key order
    risk_type,   \* predict_risk: risk_type
    risk_score,  \* predict_risk: risk_score
    risk_level,  \* predict_risk: risk_level
    confidence,  \* predict_risk: confidence
    response,    \* predict_risk: response
    origin,      \* the exception as first raised
    raised,      \* the exception in flight
    outcome,     \* what the route answered
    self,        \* the PredictionService instance: its two tables
    primary_score, \* _determine_primary_risk: scores[key] of the key it returned
    history_answer, \* what GET /predict/history/{region_name} answered
    levels,      \* what the other two score-to-level conversions returned
    now,         \* time.time(), seconds
    requests,    \* RateLimitingMiddleware.requests: client -> deque of timestamps
    admitted,    \* per client: timestamps of the requests passed to call_next
    last,        \* the request dispatch handled last, and how
    http         \* the HTTP request passing through the middleware stack

vars == <<month, clock, rngPos, regions, served, active, drawsFrom, request, pc,
          region, final_score, seasonal_adjustment, scores, risk_type, risk_score,
          risk_level, confidence, response, origin, raised, outcome, self,
          primary_score, history_answer, levels, now, requests, admitted, last, http>>

mw == <<now, requests, admitted, last, http>>
env == <<month, clock, regions, served, active, request, outcome, history_answer, levels, mw>>
callee == <<final_score, seasonal_adjustment>>
locals == <<scores, primary_score, risk_type, risk_score, risk_level, confidence,
            response>>
errs == <<origin, raised>>

\* PredictionService(): __init__ builds the two tables
PredictionService == [risk_thresholds |-> risk_thresholds, risk_factors |-> risk_factors]
\* no instance yet
NoService == [risk_thresholds |-> [k \in {} |-> 0], risk_factors |-> [k \in {} |-> 0]]

\* (variant: scoring rescales the thresholds it has read)
TablesAfterCallRescaled(s) ==
    [s EXCEPT !.risk_thresholds = [k \in DOMAIN s.risk_thresholds |->
                                      s.risk_thresholds[k] \div 10]]

\* the instance after one of its methods ran: predict_risk and the methods it
\* calls read self.risk_factors and self.risk_thresholds and assign neither
TablesAfterCall(s) == s

\* ------------------------------------------------------------------ RateLimitingMiddleware
\* `minute_ago = current_time - 60`, seconds
Window == 60
\* who sends a request: request.client.host, or no request.client
Callers == {"10.0.0.1", "10.0.0.2", NoneStr}

\* (variant: one bucket for every caller)
client_ip_shared(caller) == "unknown"

\* line 19: request.client.host if request.client else "unknown"
client_ip(caller) == IF caller = NoneStr THEN "unknown" ELSE caller

\* keys self.requests can get; the defaultdict gives each an empty deque
ClientIps == (Callers \ {NoneStr}) \cup {"unknown"}

\* (variant: the loop that drops old entries left out)
EvictNone(q, minute_ago) == q

\* lines 24-25: popleft() while the deque is non-empty and its head < minute_ago
RECURSIVE Evict(_, _)
Evict(q, minute_ago) ==
    IF q # <<>> /\ Head(q) < minute_ago THEN Evict(Tail(q), minute_ago) ELSE q

\* (variant: the limit tested with > in place of >=)
LimitExceededStrict(q) == Len(q) > CallsPerMinute

\* line 28: len(self.requests[client_ip]) >= self.calls_per_minute
LimitExceeded(q) == Len(q) >= CallsPerMinute

\* last.blocked: the keys whose latest request was rejected; last.recovered:
\* the request was passed on and the one before it from the same key was not
NoDispatch ==
    [caller |-> NoneStr, time |-> NoneNum, status |-> 0, forwarded |-> FALSE,
     blocked |-> {}, recovered |-> FALSE]

\* http.at: index in MiddlewareStack of the middleware the request is in, 0
\* outside the application, one past the last for the router; http.dir: "down"
\* towards the route, "up" with the response or the exception, "idle" when
\* none; http.log: what LoggingMiddleware logged for this request
NoHttp ==
    [caller |-> NoneStr, path |-> <<>>, at |-> 0, dir |-> "idle", log |-> <<>>,
     exc |-> NoneStr, handler |-> NoneStr, status |-> 0, body |-> <<>>]

InitMiddleware ==
    /\ now = 0
    /\ requests = [k \in ClientIps |-> <<>>]
    /\ admitted = [k \in ClientIps |-> <<>>]
    /\ last = NoDispatch
    /\ http = NoHttp

\* ------------------------------------------------------------------ random
\* random.uniform(a, b) = a + (b - a) * random.random(); a, b in thousandths,
\* u / DrawDen the value of random.random(); result over MilliScale
Uniform(a, b, u) == a * DrawDen + (b - a) * u

\* ------------------------------------------------------------------ engine
\* (variant: humidity taken as read, not divided by 100)
humidity_norm_raw(cd) == cd.humidity * NormScale

\* the four normalised fields of _calculate_risk_score, over NormScale
temp_norm(cd) == Min(Max((cd.temperature + 10) * 10, 0), NormScale)
precip_norm(cd) == Min(cd.precipitation * 6, NormScale)
humidity_norm(cd) == cd.humidity * 6
wind_norm(cd) == Min(cd.wind_speed * 6, NormScale)

\* score = sum of weight * normalised field, over NormScale * WeightScale
WeightedScore(cd, rt) ==
    LET factors == self.risk_factors[rt]
    IN  factors.temperature_weight * temp_norm(cd)
        + factors.precipitation_weight * precip_norm(cd)
        + factors.humidity_weight * humidity_norm(cd)
        + factors.wind_weight * wind_norm(cd)

\* base_score = (score + 1) / 2, over 2 * NormScale * WeightScale
BaseScore(cd, rt) == WeightedScore(cd, rt) + NormScale * WeightScale

\* (variant: wildfire given a summer season)
SeasonalRangeWildfire(rt, m) ==
    IF rt = "heatwave" /\ m \in {6, 7, 8} THEN <<100, 200>>
    ELSE IF rt = "wildfire" /\ m \in {6, 7, 8} THEN <<100, 200>>
    ELSE IF rt = "flood" /\ m \in {3, 4, 5} THEN <<50, 150>>
    ELSE IF rt = "drought" /\ m \in {7, 8, 9} THEN <<50, 150>>
    ELSE IF rt = "storm" /\ m \in {9, 10, 11} THEN <<50, 150>>
    ELSE <<-50, 50>>

\* _get_seasonal_adjustment: the (lo, hi) handed to random.uniform, thousandths
SeasonalRange(rt, m) ==
    IF rt = "heatwave" /\ m \in {6, 7, 8} THEN <<100, 200>>
    ELSE IF rt = "flood" /\ m \in {3, 4, 5} THEN <<50, 150>>
    ELSE IF rt = "drought" /\ m \in {7, 8, 9} THEN <<50, 150>>
    ELSE IF rt = "storm" /\ m \in {9, 10, 11} THEN <<50, 150>>
    ELSE <<-50, 50>>

\* _get_seasonal_adjustment, over MilliScale
get_seasonal_adjustment(rt, m, u) ==
    Uniform(SeasonalRange(rt, m)[1], SeasonalRange(rt, m)[2], u)

\* (variant: the upper clamp left out)
ClampScoreLowerOnly(x) == Max(x, 0)

\* final_score = min(max(x, 0), 1), over ScoreScale
ClampScore(x) == Min(Max(x, 0), ScoreScale)

\* a value over MilliScale, over ScoreScale
MilliToScore(v) == v * (ScoreScale \div MilliScale)

\* (variant: the default drawn from the whole of [0, 1])
DefaultScoreAnywhere(u) == MilliToScore(Uniform(0, 1000, u))

\* line 120: the score of a risk type that has no weights
DefaultScore(u) == MilliToScore(Uniform(200, 800, u))

\* lines 139-141: final_score before the seasonal adjustment, over ScoreScale
RealismScore(cd, rt, u) == ClampScore(BaseScore(cd, rt) * Uniform(800, 1200, u))

\* line 145: final_score after the seasonal adjustment adj (over MilliScale)
AdjustedScore(fs, adj) == ClampScore(fs + MilliToScore(adj))

\* _calculate_risk_score, over ScoreScale; u1, u2 the random draws in order
calculate_risk_score(cd, rt, m, u1, u2) ==
    IF rt \notin DOMAIN self.risk_factors
    THEN DefaultScore(u1)
    ELSE AdjustedScore(RealismScore(cd, rt, u1), get_seasonal_adjustment(rt, m, u2))

\* number of values _calculate_risk_score takes from the generator
ScoreDraws(rt) == IF rt \in DOMAIN self.risk_factors THEN 2 ELSE 1

\* (variant: the medium band starts at risk_thresholds["low"])
get_risk_level_low_cut(score) ==
    IF score >= self.risk_thresholds.high * ScoreUnit
    THEN (IF score >= CriticalThreshold * ScoreUnit THEN "critical" ELSE "high")
    ELSE IF score >= self.risk_thresholds.low * ScoreUnit
    THEN "medium"
    ELSE "low"

\* _get_risk_level
get_risk_level(score) ==
    IF score >= self.risk_thresholds.high * ScoreUnit
    THEN (IF score >= CriticalThreshold * ScoreUnit THEN "critical" ELSE "high")
    ELSE IF score >= self.risk_thresholds.medium * ScoreUnit
    THEN "medium"
    ELSE "low"

\* (variant: the cold side of the temperature test left out)
ExtremenessPenaltyHotOnly(cd) ==
    (IF cd.temperature > 45 THEN 100 ELSE 0)
    + (IF cd.precipitation > 200 THEN 100 ELSE 0)
    + (IF cd.wind_speed > 80 THEN 100 ELSE 0)

\* extremeness_penalty of _calculate_confidence, thousandths
ExtremenessPenalty(cd) ==
    (IF cd.temperature > 45 \/ cd.temperature < -20 THEN 100 ELSE 0)
    + (IF cd.precipitation > 200 THEN 100 ELSE 0)
    + (IF cd.wind_speed > 80 THEN 100 ELSE 0)

\* base_confidence * data_completeness - extremeness_penalty, thousandths
PenalizedBase(cd) == 750 * 1 - ExtremenessPenalty(cd)

\* (variant: the bounds written as percentages, 30 and 95)
ClampConfidencePercent(x) == Min(Max(x, 30 * ConfScale), 95 * ConfScale)

\* min(max(confidence, 0.3), 0.95), over ConfScale
ClampConfidence(x) == Min(Max(x, 300 * ConfUnit), 950 * ConfUnit)

\* (variant: a hazard without weights lowers the confidence by 0.1)
calculate_confidence_by_type(cd, rt, u) ==
    ClampConfidence((PenalizedBase(cd) - (IF rt \in DOMAIN self.risk_factors THEN 0 ELSE 100))
                    * Uniform(900, 1100, u))

\* _calculate_confidence, over ConfScale; risk_type is accepted and not read
calculate_confidence(cd, rt, u) ==
    ClampConfidence(PenalizedBase(cd) * Uniform(900, 1100, u))

\* round(x, 3) for x = v / (1000 * unit), v >= 0: nearest thousandth, ties to even
Round3(v, unit) ==
    LET q == v \div unit
        r == v % unit
    IN  IF 2 * r > unit THEN q + 1
        ELSE IF 2 * r < unit THEN q
        ELSE IF q % 2 = 0 THEN q ELSE q + 1

\* max(scores, key=scores.get): the running maximum over the keys in order,
\* replaced only by a strictly greater value
RECURSIVE MaxKeyFrom(_, _, _)
MaxKeyFrom(sc, i, best) ==
    IF i > Len(sc) THEN best
    ELSE MaxKeyFrom(sc, i + 1, IF sc[i] > sc[best] THEN i ELSE best)

\* (variant: a later key with an equal score replaces the maximum)
RECURSIVE MaxKeyLastFrom(_, _, _)
MaxKeyLastFrom(sc, i, best) ==
    IF i > Len(sc) THEN best
    ELSE MaxKeyLastFrom(sc, i + 1, IF sc[i] >= sc[best] THEN i ELSE best)
PrimaryRiskLast(sc) == Hazards[MaxKeyLastFrom(sc, 2, 1)]

\* _determine_primary_risk's return value for the scores in key order
PrimaryRisk(sc) == Hazards[MaxKeyFrom(sc, 2, 1)]

\* `not risk_type`: None and the empty string are falsy
Falsy(rt) == rt = NoneStr \/ rt = ""


\* ------------------------------------------------------------------ inputs
\* ClimateData fields (any float is accepted; integers sample them), inside
\* and outside the nominal ranges
WideTemperatures == {-30, 20, 50, 200}
WidePrecipitations == {-50, 50, 250}
WideHumidities == {-10, 50, 150}
WideWindSpeeds == {-20, 50, 90}
WideClimateData ==
    [temperature : WideTemperatures, precipitation : WidePrecipitations,
     humidity : WideHumidities, wind_speed : WideWindSpeeds]
\* observations used where all five hazards are scored
NarrowClimateData ==
    {[temperature |-> 40, precipitation |-> 0, humidity |-> 10, wind_speed |-> 5],
     [temperature |-> 50, precipitation |-> 250, humidity |-> 150, wind_speed |-> 100]}
\* the ends of the nominal ranges (temperature -10..50, the rest 0..100), and
\* the middle of all four
NominalClimateData ==
    [temperature : {-10, 50}, precipitation : {0, 100}, humidity : {0, 100},
     wind_speed : {0, 100}]
    \cup {[temperature |-> 20, precipitation |-> 50, humidity |-> 50, wind_speed |-> 50]}
\* an observation whose flood score can fall just under 0.6
BoundaryClimateData ==
    {[temperature |-> 20, precipitation |-> 100, humidity |-> 50, wind_speed |-> 12]}
\* an observation that gives every hazard the same selection scores
RouterClimateData ==
    {[temperature |-> 50, precipitation |-> 250, humidity |-> 1000, wind_speed |-> 100]}
\* risk_type: Optional[str]
UnknownTags == {"tsunami"}
NamedTags == HazardSet \cup UnknownTags
FalsyTags == {NoneStr, ""}
Months == 1..12
\* months in which requests without a hazard are made
PrimaryMonths == {7}
RegionNames == {"r1", "r2"}
Calls == 1..MaxCalls

\* Region(name=..., country="Unknown", latitude=0.0, longitude=0.0): the
\* object before it is committed has no id
NewRegion(name) ==
    [id |-> NoneNum, name |-> name, country |-> "Unknown", latitude |-> 0, longitude |-> 0]
NoRegion ==
    [id |-> NoneNum, name |-> NoneStr, country |-> NoneStr, latitude |-> 0, longitude |-> 0]
\* db.add, db.commit, db.refresh: the row gets the next primary key
Persisted(rows, r) == [r EXCEPT !.id = Cardinality(rows) + 1]

\* (variant: the filter compares the country column)
FindRegionByCountry(rows, name) == {r \in rows : r.country = name}

\* db.query(Region).filter(Region.name == name): the rows found
FindRegion(rows, name) == {r \in rows : r.name = name}

\* name = Column(String, unique=True): the insert violates the constraint
NameTaken(rows, name) == \E r \in rows : r.name = name
NoClimateData == [temperature |-> 0, precipitation |-> 0, humidity |-> 0, wind_speed |-> 0]
NoRequest == [region |-> NoneStr, climate_data |-> NoClimateData, risk_type |-> NoneStr]
NoResponse ==
    [risk_score |-> NoneNum, risk_label |-> NoneStr, confidence |-> NoneNum,
     risk_type |-> NoneStr, region |-> NoneStr, prediction_date |-> NoneNum]
NoOutcome == [status |-> 0, detail |-> <<>>, body |-> NoResponse]
\* history_answer: region_name the path parameter, caught the class of the
\* exception the except clause of the route handled
NoLevels == [map_router |-> NoneStr, seed_database |-> NoneStr]
NoAnswer == [status |-> 0, detail |-> <<>>, region_name |-> NoneStr, caught |-> NoneStr]

\* ------------------------------------------------------------------ predict_risk
\* lines 70-74: log, then branch on `not risk_type`
PredictEntry ==
    /\ pc = "predict_risk"
    /\ drawsFrom' = [drawsFrom EXCEPT ![active] = rngPos]
    /\ pc' = IF Falsy(risk_type) THEN "primary" ELSE "score"
    /\ self' = TablesAfterCall(self)
    /\ UNCHANGED <<env, rngPos, region, callee, locals, errs>>

\* _determine_primary_risk, one iteration of the loop over risk_factors.keys()
DeterminePrimaryStep ==
    /\ pc = "primary"
    /\ Len(scores) < Len(Hazards)
    /\ \E u1, u2 \in Draws :
         scores' = Append(scores,
                     calculate_risk_score(request.climate_data,
                                          Hazards[Len(scores) + 1], month, u1, u2))
    /\ rngPos' = rngPos + ScoreDraws(Hazards[Len(scores) + 1])
    /\ self' = TablesAfterCall(self)
    /\ UNCHANGED <<env, primary_score, drawsFrom, pc, region, callee, risk_type, risk_score,
                   risk_level, confidence, response, errs>>

\* _determine_primary_risk returns max(scores, key=scores.get)
DeterminePrimaryReturn ==
    /\ pc = "primary"
    /\ Len(scores) = Len(Hazards)
    /\ risk_type' = PrimaryRisk(scores)
    /\ primary_score' = scores[MaxKeyFrom(scores, 2, 1)]
    /\ pc' = "score"
    /\ self' = TablesAfterCall(self)
    /\ UNCHANGED <<env, rngPos, drawsFrom, region, callee, scores, risk_score,
                   risk_level, confidence, response, errs>>

\* line 77
CalcScore ==
    /\ pc = "score"
    /\ \E u1, u2 \in Draws :
         /\ risk_score' = calculate_risk_score(request.climate_data, risk_type, month, u1, u2)
         /\ final_score' = IF risk_type \in DOMAIN self.risk_factors
                            THEN <<RealismScore(request.climate_data, risk_type, u1)>>
                            ELSE <<>>
         /\ seasonal_adjustment' = IF risk_type \in DOMAIN self.risk_factors
                                    THEN <<get_seasonal_adjustment(risk_type, month, u2)>>
                                    ELSE <<>>
    /\ rngPos' = rngPos + ScoreDraws(risk_type)
    /\ scores' = <<>>
    /\ pc' = "level"
    /\ self' = TablesAfterCall(self)
    /\ UNCHANGED <<env, primary_score, drawsFrom, region, risk_type, risk_level, confidence,
                   response, errs>>

\* line 80
GetRiskLevel ==
    /\ pc = "level"
    /\ risk_level' = get_risk_level(risk_score)
    /\ final_score' = <<>>
    /\ seasonal_adjustment' = <<>>
    /\ primary_score' = NoneNum
    /\ pc' = "confidence"
    /\ self' = TablesAfterCall(self)
    /\ UNCHANGED <<env, rngPos, drawsFrom, region, scores, risk_type, risk_score,
                   confidence, response, errs>>

\* line 83
CalcConfidence ==
    /\ pc = "confidence"
    /\ \E u \in Draws :
         confidence' = calculate_confidence(request.climate_data, risk_type, u)
    /\ rngPos' = rngPos + 1
    /\ pc' = "respond"
    /\ self' = TablesAfterCall(self)
    /\ UNCHANGED <<env, primary_score, drawsFrom, region, callee, scores, risk_type, risk_score,
                   risk_level, response, errs>>

\* (variant: the region field filled with the row's country)
MakeResponseCountry(score, level, conf, rt, name, date) ==
    [risk_score |-> Round3(score, ScoreUnit), risk_label |-> level,
     confidence |-> Round3(conf, ConfUnit), risk_type |-> rt, region |-> "Unknown",
     prediction_date |-> date]

\* lines 85-92: PredictionResponse(...)
MakeResponse(score, level, conf, rt, name, date) ==
    [risk_score |-> Round3(score, ScoreUnit), risk_label |-> level,
     confidence |-> Round3(conf, ConfUnit), risk_type |-> rt, region |-> name,
     prediction_date |-> date]

\* lines 85-95
BuildResponse ==
    /\ pc = "respond"
    /\ response' = MakeResponse(risk_score, risk_level, confidence, risk_type,
                                region.name, clock)
    /\ pc' = "returned"
    /\ self' = TablesAfterCall(self)
    /\ UNCHANGED <<env, primary_score, rngPos, drawsFrom, region, callee, scores, risk_type,
                   risk_score, risk_level, confidence, errs>>

ServiceSteps ==
    \/ PredictEntry
    \/ DeterminePrimaryStep
    \/ DeterminePrimaryReturn
    \/ CalcScore
    \/ GetRiskLevel
    \/ CalcConfidence
    \/ BuildResponse

\* ------------------------------------------------------------------ predict_risk called directly
PredictRequests ==
    [region : {"r1"}, climate_data : WideClimateData, risk_type : NamedTags]
    \cup [region : {"r1"}, climate_data : NarrowClimateData,
          risk_type : NamedTags \cup FalsyTags]
    \cup [region : {"r1"}, climate_data : NominalClimateData \cup BoundaryClimateData,
          risk_type : NamedTags]
    \cup [region : {"r2"}, climate_data : RouterClimateData,
          risk_type : NamedTags \cup FalsyTags]

InitPredict ==
    /\ request \in PredictRequests
    /\ month \in IF Falsy(request.risk_type) THEN PrimaryMonths ELSE Months
    /\ clock = 0
    /\ rngPos = 0
    /\ regions = {Persisted({}, NewRegion(request.region))}
    /\ served = {}
    /\ active = 1
    /\ drawsFrom = [c \in Calls |-> -1]
    /\ pc = "predict_risk"
    /\ region = Persisted({}, NewRegion(request.region))
    /\ final_score = <<>>
    /\ seasonal_adjustment = <<>>
    /\ scores = <<>>
    /\ risk_type = request.risk_type
    /\ risk_score = NoneNum
    /\ risk_level = NoneStr
    /\ confidence = NoneNum
    /\ response = NoResponse
    /\ origin = NoneStr
    /\ raised = NoneStr
    /\ outcome = NoOutcome
    /\ primary_score = NoneNum
    /\ history_answer = NoAnswer
    /\ levels = NoLevels
    /\ InitMiddleware
    /\ self = PredictionService

NextPredict == ServiceSteps

SpecPredict == InitPredict /\ [][NextPredict]_vars


\* ------------------------------------------------------------------ _get_risk_level called directly
\* scores handed to _get_risk_level: every hundredth of [0, 1], and the
\* hundred-thousandths around 0.3, 0.6, 0.8 and 0.9
ClassifySamples ==
    {(ScoreScale \div 100000) * k :
        k \in {1000 * i : i \in 0..100}
              \cup {1000 * t + d : t \in {30, 60, 80, 90}, d \in {-1, 1}}}

InitClassify ==
    /\ month \in {1}
    /\ request = NoRequest
    /\ clock = 0
    /\ rngPos = 0
    /\ regions = {}
    /\ served = {}
    /\ active = 0
    /\ drawsFrom = [c \in Calls |-> -1]
    /\ pc = "classify"
    /\ region = NoRegion
    /\ final_score = <<>>
    /\ seasonal_adjustment = <<>>
    /\ scores = <<>>
    /\ risk_type = NoneStr
    /\ risk_score \in ClassifySamples
    /\ risk_level = NoneStr
    /\ confidence = NoneNum
    /\ response = NoResponse
    /\ origin = NoneStr
    /\ raised = NoneStr
    /\ outcome = NoOutcome
    /\ primary_score = NoneNum
    /\ history_answer = NoAnswer
    /\ levels = NoLevels
    /\ InitMiddleware
    /\ self = PredictionService

\* _get_risk_level(risk_score)
ClassifyCall ==
    /\ pc = "classify"
    /\ risk_level' = get_risk_level(risk_score)
    /\ pc' = "classified"
    /\ self' = TablesAfterCall(self)
    /\ UNCHANGED <<env, primary_score, rngPos, drawsFrom, region, callee, scores, risk_type,
                   risk_score, confidence, response, errs>>

\* map_router.generate_risk_level(score), lines 38-47
generate_risk_level(score) ==
    IF 10 * score >= 8 * ScoreScale THEN "critical"
    ELSE IF 10 * score >= 6 * ScoreScale THEN "high"
    ELSE IF 10 * score >= 4 * ScoreScale THEN "medium"
    ELSE "low"

\* seed_predictions, seed_database.py lines 104-112: RiskLevel of risk_score
seed_risk_level(score) ==
    IF 10 * score >= 8 * ScoreScale THEN "critical"
    ELSE IF 10 * score >= 6 * ScoreScale THEN "high"
    ELSE IF 10 * score >= 4 * ScoreScale THEN "medium"
    ELSE "low"

\* generate_risk_level called with the same score
GenerateRiskLevelCall ==
    /\ pc \in {"classify", "classified"}
    /\ levels.map_router = NoneStr
    /\ levels' = [levels EXCEPT !.map_router = generate_risk_level(risk_score)]
    /\ UNCHANGED <<month, clock, rngPos, regions, served, active, drawsFrom, request,
                   pc, region, callee, locals, errs, outcome, self, history_answer, mw>>

\* the level seed_predictions stores with the same score
SeedRiskLevelCall ==
    /\ pc \in {"classify", "classified"}
    /\ levels.seed_database = NoneStr
    /\ levels' = [levels EXCEPT !.seed_database = seed_risk_level(risk_score)]
    /\ UNCHANGED <<month, clock, rngPos, regions, served, active, drawsFrom, request,
                   pc, region, callee, locals, errs, outcome, self, history_answer, mw>>

NextClassify ==
    \/ ClassifyCall
    \/ GenerateRiskLevelCall
    \/ SeedRiskLevelCall

SpecClassify == InitClassify /\ [][NextClassify]_vars


\* ------------------------------------------------------------------ POST /predict
\* Requests are handled on one event loop; predict_climate_risk never yields
\* to it (the database calls are synchronous and the awaited predict_risk
\* does not suspend), so one request is handled at a time, in any order.
RouterRequests ==
    [region : RegionNames, climate_data : RouterClimateData,
     risk_type : {"flood", "tsunami", NoneStr}]
DbExceptions == {"OperationalError"}
ServiceExceptions == {"DetachedInstanceError"}
ServicePcs == {"predict_risk", "primary", "score", "level", "confidence", "respond"}

\* (variant: the handler raises a new exception in place of the caught one)
ReraiseWrapped(e) == "PredictionError"

\* line 99: a bare `raise` re-raises the exception being handled
Reraise(e) == e

\* line 54: HTTPException(status_code=500, detail=f"Prediction failed: {str(e)}")
HttpError(e) == [status |-> 500, detail |-> <<"Prediction failed: ", e>>, body |-> NoResponse]

\* the route returns the prediction
HttpOk(r) == [status |-> 200, detail |-> <<>>, body |-> r]

\* the event loop starts the handler of a request not yet answered
Dispatch(c) ==
    /\ active = 0
    /\ pc = "idle"
    /\ c \in Calls \ served
    /\ \E req \in RouterRequests : request' = req
    /\ active' = c
    /\ clock' = clock + 1
    /\ pc' = "router"
    /\ region' = NoRegion
    /\ final_score' = <<>>
    /\ seasonal_adjustment' = <<>>
    /\ scores' = <<>>
    /\ risk_type' = NoneStr
    /\ risk_score' = NoneNum
    /\ risk_level' = NoneStr
    /\ confidence' = NoneNum
    /\ response' = NoResponse
    /\ origin' = NoneStr
    /\ raised' = NoneStr
    /\ outcome' = NoOutcome
    /\ primary_score' = NoneNum
    /\ UNCHANGED <<month, rngPos, regions, served, drawsFrom, self, history_answer, levels, mw>>

\* lines 27-47: get or create the region, then call predict_risk
GetOrCreateRegion ==
    /\ pc = "router"
    /\ LET found == FindRegion(regions, request.region)
           row == Persisted(regions, NewRegion(request.region))
       IN  IF found # {}
           THEN /\ region' = CHOOSE r \in found : TRUE
                /\ regions' = regions
                /\ self' = PredictionService
                /\ risk_type' = request.risk_type
                /\ pc' = "predict_risk"
                /\ UNCHANGED errs
           ELSE IF NameTaken(regions, request.region)
           THEN /\ origin' = "IntegrityError"
                /\ raised' = "IntegrityError"
                /\ pc' = "router_except"
                /\ UNCHANGED <<region, regions, self, risk_type>>
           ELSE /\ region' = row
                /\ regions' = regions \cup {row}
                /\ self' = PredictionService
                /\ risk_type' = request.risk_type
                /\ pc' = "predict_risk"
                /\ UNCHANGED errs
    /\ UNCHANGED <<month, clock, rngPos, served, active, drawsFrom, request, callee,
                   scores, primary_score, risk_score, risk_level, confidence,
                   response, outcome, history_answer, levels, mw>>

\* lines 28-39: a database call raises, before or after the new row is committed
DbError ==
    /\ pc = "router"
    /\ \E e \in DbExceptions, committed \in BOOLEAN :
         /\ origin' = e
         /\ raised' = e
         /\ regions' = IF committed /\ FindRegion(regions, request.region) = {}
                                    /\ ~NameTaken(regions, request.region)
                       THEN regions \cup {Persisted(regions, NewRegion(request.region))}
                       ELSE regions
    /\ pc' = "router_except"
    /\ UNCHANGED <<month, clock, rngPos, served, active, drawsFrom, request, region,
                   callee, locals, outcome, self, history_answer, levels, mw>>

\* lines 69-95: a statement of the try block of predict_risk raises
ServiceError ==
    /\ active # 0
    /\ pc \in ServicePcs
    /\ \E e \in ServiceExceptions :
         /\ origin' = e
         /\ raised' = e
    /\ pc' = "service_except"
    /\ UNCHANGED <<env, rngPos, drawsFrom, region, callee, locals, self>>

\* lines 97-99: log and re-raise
ServiceExcept ==
    /\ pc = "service_except"
    /\ raised' = Reraise(raised)
    /\ pc' = "router_except"
    /\ UNCHANGED <<env, rngPos, drawsFrom, region, callee, locals, origin, self>>

\* lines 52-54: the route turns any exception into a 500
RouterExcept ==
    /\ pc = "router_except"
    /\ outcome' = HttpError(raised)
    /\ served' = served \cup {active}
    /\ active' = 0
    /\ pc' = "idle"
    /\ UNCHANGED <<month, clock, rngPos, regions, drawsFrom, request, region, callee,
                   locals, errs, self, history_answer, levels, mw>>

\* lines 49-50: the route returns what predict_risk returned
RouterReturn ==
    /\ active # 0
    /\ pc = "returned"
    /\ outcome' = HttpOk(response)
    /\ served' = served \cup {active}
    /\ active' = 0
    /\ pc' = "idle"
    /\ UNCHANGED <<month, clock, rngPos, regions, drawsFrom, request, region, callee,
                   locals, errs, self, history_answer, levels, mw>>

Init ==
    /\ month \in PrimaryMonths
    /\ clock = 0
    /\ rngPos = 0
    /\ regions = {}
    /\ served = {}
    /\ active = 0
    /\ drawsFrom = [c \in Calls |-> -1]
    /\ request = NoRequest
    /\ pc = "idle"
    /\ region = NoRegion
    /\ final_score = <<>>
    /\ seasonal_adjustment = <<>>
    /\ scores = <<>>
    /\ risk_type = NoneStr
    /\ risk_score = NoneNum
    /\ risk_level = NoneStr
    /\ confidence = NoneNum
    /\ response = NoResponse
    /\ origin = NoneStr
    /\ raised = NoneStr
    /\ outcome = NoOutcome
    /\ primary_score = NoneNum
    /\ history_answer = NoAnswer
    /\ levels = NoLevels
    /\ InitMiddleware
    /\ self = NoService

Next ==
    \/ \E c \in Calls : Dispatch(c)
    \/ GetOrCreateRegion
    \/ DbError
    \/ ServiceSteps
    \/ ServiceError
    \/ ServiceExcept
    \/ RouterExcept
    \/ RouterReturn

Spec == Init /\ [][Next]_vars

\* the same requests when no statement raises
NextNoFaults ==
    \/ \E c \in Calls : Dispatch(c)
    \/ GetOrCreateRegion
    \/ ServiceSteps
    \/ RouterReturn

SpecNoFaults == Init /\ [][NextNoFaults]_vars

\* ------------------------------------------------------------------ GET /predict/history/{region_name}
\* names asked for, with and without a row in the regions table
HistoryNames == RegionNames \cup {"r3", "r4"}

\* rows the table can hold for them
HistoryRows ==
    {[NewRegion(n) EXCEPT !.id = IF n = "r1" THEN 1 ELSE IF n = "r2" THEN 2
                                 ELSE IF n = "r3" THEN 3 ELSE 4] : n \in HistoryNames}

\* line 66: HTTPException(status_code=404, detail="Region not found")
RegionNotFound == [class |-> "HTTPException", status_code |-> 404,
                   detail |-> "Region not found"]

\* lines 76-78: `except Exception as e` handles every exception raised in the
\* try block, HTTPException being a subclass of Exception, and raises
\* HTTPException(status_code=500, detail=str(e))
HistoryExcept(region_name, e) ==
    [status |-> 500, detail |-> <<"str", e.class, e.detail>>,
     region_name |-> region_name, caught |-> e.class]

\* lines 70-74: the body returned for a region that has a row
HistoryOk(region_name) ==
    [status |-> 200, detail |-> <<>>, region_name |-> region_name, caught |-> NoneStr]

\* get_prediction_history, lines 63-78, when the query succeeds
get_prediction_history(region_name) ==
    /\ active = 0
    /\ pc = "idle"
    /\ history_answer' =
         IF FindRegion(regions, region_name) = {}
         THEN HistoryExcept(region_name, RegionNotFound)
         ELSE HistoryOk(region_name)
    /\ UNCHANGED <<month, clock, rngPos, regions, served, active, drawsFrom, request,
                   pc, region, callee, locals, errs, outcome, self, levels, mw>>

\* the same when the query of line 64 raises
HistoryDbError(region_name) ==
    /\ active = 0
    /\ pc = "idle"
    /\ \E e \in DbExceptions :
         history_answer' =
             HistoryExcept(region_name, [class |-> e, status_code |-> NoneNum, detail |-> e])
    /\ UNCHANGED <<month, clock, rngPos, regions, served, active, drawsFrom, request,
                   pc, region, callee, locals, errs, outcome, self, levels, mw>>

\* any rows may be in the table when the route is called
InitHistory ==
    /\ month \in PrimaryMonths
    /\ clock = 0
    /\ rngPos = 0
    /\ regions \in SUBSET HistoryRows
    /\ served = {}
    /\ active = 0
    /\ drawsFrom = [c \in Calls |-> -1]
    /\ request = NoRequest
    /\ pc = "idle"
    /\ region = NoRegion
    /\ final_score = <<>>
    /\ seasonal_adjustment = <<>>
    /\ scores = <<>>
    /\ risk_type = NoneStr
    /\ risk_score = NoneNum
    /\ risk_level = NoneStr
    /\ confidence = NoneNum
    /\ response = NoResponse
    /\ origin = NoneStr
    /\ raised = NoneStr
    /\ outcome = NoOutcome
    /\ primary_score = NoneNum
    /\ history_answer = NoAnswer
    /\ levels = NoLevels
    /\ InitMiddleware
    /\ self = NoService

NextHistory ==
    \/ \E region_name \in HistoryNames : get_prediction_history(region_name)
    \/ \E region_name \in HistoryNames : HistoryDbError(region_name)

SpecHistory == InitHistory /\ [][NextHistory]_vars

\* ------------------------------------------------------------------ requests through RateLimitingMiddleware
\* time.time() between two requests: the clock does not go back
Tick ==
    /\ \E d \in {20, 40, 60} : now' = now + d
    /\ now' <= MaxTime
    /\ UNCHANGED <<month, clock, rngPos, regions, served, active, drawsFrom, request,
                   pc, region, callee, locals, errs, outcome, self, history_answer, levels,
                   requests, admitted, last, http>>

\* RateLimitingMiddleware.dispatch, lines 18-40: up to `await
\* call_next(request)` the handler does not yield, so the deque is cleaned,
\* tested and appended to in one step
RateLimit(caller) ==
    /\ Len(admitted["unknown"]) + Len(admitted["10.0.0.1"]) + Len(admitted["10.0.0.2"])
         < MaxRequests
    /\ LET k == client_ip(caller)
           current_time == now
           minute_ago == current_time - Window
           cleaned == Evict(requests[k], minute_ago)
       IN  IF LimitExceeded(cleaned)
           THEN /\ requests' = [requests EXCEPT ![k] = cleaned]
                /\ admitted' = admitted
                /\ last' = [caller |-> caller, time |-> current_time, status |-> 429,
                            forwarded |-> FALSE, blocked |-> last.blocked \cup {k},
                            recovered |-> FALSE]
           ELSE /\ requests' = [requests EXCEPT ![k] = Append(cleaned, current_time)]
                /\ admitted' = [admitted EXCEPT ![k] = Append(@, current_time)]
                /\ last' = [caller |-> caller, time |-> current_time, status |-> 200,
                            forwarded |-> TRUE, blocked |-> last.blocked \ {k},
                            recovered |-> k \in last.blocked]

\* a request that meets RateLimitingMiddleware alone
dispatch(caller) ==
    /\ RateLimit(caller)
    /\ UNCHANGED <<month, clock, rngPos, regions, served, active, drawsFrom, request,
                   pc, region, callee, locals, errs, outcome, self, history_answer, levels, now,
                   http>>

NextRateLimit ==
    \/ Tick
    \/ \E caller \in Callers : dispatch(caller)

SpecRateLimit == Init /\ [][NextRateLimit]_vars


\* ------------------------------------------------------------------ the application of main.py
\* main.py lines 33-43: the add_middleware calls, in order
Installed == <<"LoggingMiddleware", "RateLimitingMiddleware", "CORSMiddleware">>

\* Starlette.add_middleware: self.user_middleware.insert(0, ...), so the
\* middleware added last is the outermost
add_middleware(stack, m) == <<m>> \o stack

\* the stack a request goes through, outermost first
RECURSIVE BuildStack(_, _)
BuildStack(stack, i) ==
    IF i > Len(Installed) THEN stack
    ELSE BuildStack(add_middleware(stack, Installed[i]), i + 1)
MiddlewareStack == BuildStack(<<>>, 1)

\* actions.py: the routes of the router in the order of their decorators;
\* "{action_id}" stands for one path segment
ActionRoutes ==
    <<[path |-> <<"actions">>, endpoint |-> "get_adaptive_actions"],
      [path |-> <<"actions", "{action_id}">>, endpoint |-> "get_action_details"],
      [path |-> <<"actions", "categories">>, endpoint |-> "get_action_categories"],
      [path |-> <<"actions", "priorities">>, endpoint |-> "get_action_priorities"]>>

\* paths asked for, after the prefix /api
Paths == {<<"actions">>, <<"actions", "1">>, <<"actions", "9">>,
          <<"actions", "categories">>, <<"actions", "priorities">>, <<"nowhere">>}
\* who sends the requests to the application
AppCallers == {"10.0.0.1"}

\* the segments int() accepts, and their values
IntSegments == {"1", "9"}
IntOf(seg) == IF seg = "1" THEN 1 ELSE 9
\* MOCK_ACTIONS: the ids, lines 12-101
MockActionIds == 1..8
\* ActionCategory and ActionPriority, values in definition order
ActionCategories == <<"preparation", "response", "recovery", "mitigation">>
ActionPriorities == <<"low", "medium", "high", "critical">>

\* Route.matches: a path parameter without a convertor matches any one segment
RouteMatches(route, path) ==
    /\ Len(route.path) = Len(path)
    /\ \A i \in 1..Len(path) : route.path[i] = path[i] \/ route.path[i] = "{action_id}"

\* Router: the first route in declaration order that matches, 0 when none
MatchRoute(path) ==
    LET hits == {i \in 1..Len(ActionRoutes) : RouteMatches(ActionRoutes[i], path)}
    IN  IF hits = {} THEN 0 ELSE CHOOSE i \in hits : \A j \in hits : i <= j

\* what the matched endpoint answers
Endpoint(path) ==
    LET i == MatchRoute(path)
        name == IF i = 0 THEN NoneStr ELSE ActionRoutes[i].endpoint
    IN  IF i = 0 THEN [handler |-> NoneStr, status |-> 404, body |-> <<"Not Found">>]
        ELSE IF name = "get_action_details"
        THEN (IF path[2] \notin IntSegments
              THEN [handler |-> name, status |-> 422, body |-> <<"int_parsing">>]
              ELSE IF IntOf(path[2]) \in MockActionIds
              THEN [handler |-> name, status |-> 200, body |-> <<"action", path[2]>>]
              ELSE [handler |-> name, status |-> 404, body |-> <<"Action not found">>])
        ELSE IF name = "get_action_categories"
        THEN [handler |-> name, status |-> 200, body |-> ActionCategories]
        ELSE IF name = "get_action_priorities"
        THEN [handler |-> name, status |-> 200, body |-> ActionPriorities]
        ELSE [handler |-> name, status |-> 200, body |-> <<"actions">>]

others == <<month, clock, rngPos, regions, served, active, drawsFrom, request, pc,
            region, callee, locals, errs, outcome, self, history_answer, levels>>

\* a request reaches the application
Receive(caller, path) ==
    /\ http.dir \in {"idle", "answered"}
    /\ Len(admitted["unknown"]) + Len(admitted["10.0.0.1"]) + Len(admitted["10.0.0.2"])
         < MaxRequests
    /\ http' = [NoHttp EXCEPT !.caller = caller, !.path = path, !.at = 1, !.dir = "down"]
    /\ UNCHANGED <<others, now, requests, admitted, last>>

\* CORSMiddleware hands a request that is no preflight to the next
CorsPass ==
    /\ http.dir = "down"
    /\ http.at <= Len(MiddlewareStack)
    /\ MiddlewareStack[http.at] = "CORSMiddleware"
    /\ http' = [http EXCEPT !.at = @ + 1]
    /\ UNCHANGED <<others, now, requests, admitted, last>>

\* RateLimitingMiddleware.dispatch: raises HTTPException(429) or calls the next
RateLimitingDispatch ==
    /\ http.dir = "down"
    /\ http.at <= Len(MiddlewareStack)
    /\ MiddlewareStack[http.at] = "RateLimitingMiddleware"
    /\ RateLimit(http.caller)
    /\ http' = IF last'.status = 429
               THEN [http EXCEPT !.exc = "HTTPException", !.status = 429,
                                 !.dir = "up", !.at = @ - 1]
               ELSE [http EXCEPT !.at = @ + 1]
    /\ UNCHANGED <<others, now>>

\* LoggingMiddleware.dispatch, lines 14-24: log the request, call the next
LoggingRequest ==
    /\ http.dir = "down"
    /\ http.at <= Len(MiddlewareStack)
    /\ MiddlewareStack[http.at] = "LoggingMiddleware"
    /\ http' = [http EXCEPT !.log = Append(@, "Request"), !.at = @ + 1]
    /\ UNCHANGED <<others, now, requests, admitted, last>>

\* the router answers, or something under it raises
Route ==
    /\ http.dir = "down"
    /\ http.at = Len(MiddlewareStack) + 1
    /\ \E fails \in BOOLEAN :
         http' = IF fails
                 THEN [http EXCEPT !.exc = "RuntimeError", !.dir = "up", !.at = @ - 1]
                 ELSE [http EXCEPT !.handler = Endpoint(http.path).handler,
                                   !.status = Endpoint(http.path).status,
                                   !.body = Endpoint(http.path).body,
                                   !.dir = "up", !.at = @ - 1]
    /\ UNCHANGED <<others, now, requests, admitted, last>>

\* LoggingMiddleware.dispatch, lines 26-44: log the response, or the
\* exception, which is raised again
LoggingResponse ==
    /\ http.dir = "up"
    /\ http.at >= 1
    /\ MiddlewareStack[http.at] = "LoggingMiddleware"
    /\ http' = [http EXCEPT !.log = Append(@, IF http.exc = NoneStr THEN "Response"
                                               ELSE "Error"),
                            !.at = @ - 1]
    /\ UNCHANGED <<others, now, requests, admitted, last>>

\* the response or the exception goes through the other middlewares
PassUp ==
    /\ http.dir = "up"
    /\ http.at >= 1
    /\ MiddlewareStack[http.at] # "LoggingMiddleware"
    /\ http' = [http EXCEPT !.at = @ - 1]
    /\ UNCHANGED <<others, now, requests, admitted, last>>

\* the client has its answer
Answered ==
    /\ http.dir = "up"
    /\ http.at = 0
    /\ http' = [http EXCEPT !.dir = "answered"]
    /\ UNCHANGED <<others, now, requests, admitted, last>>

NextApp ==
    \/ Tick
    \/ \E caller \in AppCallers, path \in Paths : Receive(caller, path)
    \/ CorsPass
    \/ RateLimitingDispatch
    \/ LoggingRequest
    \/ Route
    \/ LoggingResponse
    \/ PassUp
    \/ Answered

SpecApp == Init /\ [][NextApp]_vars

\* ================================================================== properties
cd == request.climate_data
InUnit(x) == 0 <= x /\ x <= ScoreScale
FullyPopulated(r) ==
    /\ r.risk_score # NoneNum
    /\ r.risk_label # NoneStr
    /\ r.confidence # NoneNum
    /\ r.risk_type # NoneStr
    /\ r.region # NoneStr
    /\ r.prediction_date # NoneNum

\* C1: every score the scoring operation returns (the five selection scores
\* and the score of line 77) and the risk_score of the result of predict lie
\* in [0, 1], for in-range and out-of-range observations, every hazard tag
\* and every draw.
C1_ScoreInUnitInterval ==
    /\ \A i \in 1..Len(scores) : InUnit(scores[i])
    /\ risk_score # NoneNum => InUnit(risk_score)
    /\ pc = "returned" => 0 <= response.risk_score /\ response.risk_score <= 1000

\* a result for temperature = 200, precipitation = -50 whose score was cut to 1
C1_Witness ==
    /\ pc = "returned"
    /\ cd.temperature = 200 /\ cd.precipitation = -50
    /\ risk_score = ScoreScale
    /\ response.risk_score = 1000

\* C2: the confidence the engine computes, and the confidence field of the
\* result of predict after rounding to 3 decimals, lie in [0.3, 0.95].
C2_ConfidenceInInterval ==
    /\ confidence # NoneNum =>
         300 * ConfUnit <= confidence /\ confidence <= 950 * ConfUnit
    /\ pc = "returned" => 300 <= response.confidence /\ response.confidence <= 950

\* a result for an observation with all three extremeness conditions
C2_Witness ==
    /\ pc = "returned"
    /\ cd.temperature > 45 /\ cd.precipitation > 200 /\ cd.wind_speed > 80
    /\ response.confidence = 405

\* the observation with every field moved to the nearest nominal bound
Saturate(c) ==
    [temperature |-> Min(Max(c.temperature, -10), 50),
     precipitation |-> Min(Max(c.precipitation, 0), 100),
     humidity |-> Min(Max(c.humidity, 0), 100),
     wind_speed |-> Min(Max(c.wind_speed, 0), 100)]
PossibleScores(c, rt, m) ==
    {calculate_risk_score(c, rt, m, u1, u2) : u1 \in Draws, u2 \in Draws}

\* C3: all four normalised fields are clamped to [0, 1] on both sides: the
\* score computed for an observation is a score the saturated observation can
\* get, and both observations have the same set of possible scores.
C3_FieldsSaturate ==
    pc = "level" /\ risk_type \in HazardSet =>
        /\ risk_score \in PossibleScores(Saturate(cd), risk_type, month)
        /\ PossibleScores(cd, risk_type, month)
             = PossibleScores(Saturate(cd), risk_type, month)

\* the level the bands of the claim give to a score
BandOf(s) ==
    IF 10 * s < 6 * ScoreScale THEN "low"
    ELSE IF 10 * s < 8 * ScoreScale THEN "medium"
    ELSE IF 10 * s < 9 * ScoreScale THEN "high"
    ELSE "critical"
LevelRank(l) == CASE l = "low" -> 0 [] l = "medium" -> 1 [] l = "high" -> 2
                  [] l = "critical" -> 3

\* C4: classify gives every score the level of its band (< 0.6 low, [0.6, 0.8)
\* medium, [0.8, 0.9) high, >= 0.9 critical), the boundaries belonging to the
\* higher band, and no smaller score gets a higher level.
C4_ClassifyBands ==
    pc = "classified" =>
        /\ risk_level = BandOf(risk_score)
        /\ \A t \in ClassifySamples :
             t <= risk_score => LevelRank(get_risk_level(t)) <= LevelRank(risk_level)

\* the score 0.6 itself classified as medium
C4_Witness ==
    /\ pc = "classified"
    /\ 10 * risk_score = 6 * ScoreScale
    /\ risk_level = "medium"

HazardIndex(h) == CHOOSE i \in 1..Len(Hazards) : Hazards[i] = h

\* C5: primary-hazard selection scores each of the five hazards once and
\* returns a hazard whose score is the maximum of the five, the first such
\* hazard in the order flood, drought, heatwave, wildfire, storm.
C5_PrimaryIsFirstMax ==
    /\ pc = "primary" => Len(scores) <= Len(Hazards)
    /\ pc = "score" /\ Len(scores) > 0 =>
         /\ Len(scores) = Len(Hazards)
         /\ rngPos = drawsFrom[active] + 2 * Len(Hazards)
         /\ risk_type \in HazardSet
         /\ \A j \in 1..Len(scores) : scores[j] <= scores[HazardIndex(risk_type)]
         /\ \A j \in 1..(HazardIndex(risk_type) - 1) :
              scores[j] < scores[HazardIndex(risk_type)]

\* flood and storm share the maximum and flood is returned
C5_Witness ==
    /\ pc = "score"
    /\ Len(scores) = Len(Hazards)
    /\ scores[1] = scores[5]
    /\ \A j \in 1..Len(scores) : scores[j] <= scores[1]
    /\ risk_type = "flood"

\* the number of extremeness conditions that hold
ExtremeCount(c) ==
    Cardinality({k \in {"t", "p", "w"} :
        \/ k = "t" /\ (c.temperature > 45 \/ c.temperature < -20)
        \/ k = "p" /\ c.precipitation > 200
        \/ k = "w" /\ c.wind_speed > 80})

\* C6: the confidence before jitter is 0.75 - 0.1*k for k the number of
\* extremeness conditions (temperature, precipitation, wind; humidity never
\* counts), and the returned confidence lies in [(0.75-0.1k)*0.9,
\* (0.75-0.1k)*1.1] cut to [0.3, 0.95]; [0.405, 0.495] for temperature 50,
\* precipitation 250, wind 90.
C6_ConfidencePenalty ==
    confidence # NoneNum =>
        LET b == 750 - 100 * ExtremeCount(cd)
        IN  /\ PenalizedBase(cd) = b
            /\ confidence >= Max(b * 900 * DrawDen, 300 * ConfUnit)
            /\ confidence <= Min(b * 1100 * DrawDen, 950 * ConfUnit)
            /\ cd.temperature = 50 /\ cd.precipitation = 250 /\ cd.wind_speed = 90 =>
                 405 * ConfUnit <= confidence /\ confidence <= 495 * ConfUnit

\* the observation of the claim at the lower end of its interval
C6_Witness ==
    /\ pc = "respond"
    /\ cd.temperature = 50 /\ cd.precipitation = 250 /\ cd.wind_speed = 90
    /\ cd.humidity = 50
    /\ confidence = 405 * ConfUnit

\* the scores random.uniform(0.2, 0.8) can give
FallbackScores == {MilliToScore(200 * DrawDen + 600 * u) : u \in Draws}

\* what C7 says of the requests whose tag is in the set T
UnknownTagFallsBack(T) ==
    request.risk_type \in T =>
        /\ raised = NoneStr
        /\ risk_score # NoneNum =>
             /\ risk_score \in FallbackScores
             /\ 2 * ScoreScale <= 10 * risk_score /\ 10 * risk_score <= 8 * ScoreScale
             /\ final_score = <<>> /\ seasonal_adjustment = <<>>
        /\ pc = "level" => rngPos = drawsFrom[active] + 1
        /\ pc = "returned" =>
             /\ FullyPopulated(response)
             /\ response.risk_type = request.risk_type

\* C7 as stated: a hazard tag that is supplied (not None) and is not one of
\* the five hazards gets a score drawn from [0.2, 0.8] with no weighting,
\* realism multiplier or seasonal adjustment, and a fully populated result
\* for that tag.
C7_AnySuppliedUnknownTag == UnknownTagFallsBack(UnknownTags \cup {""})

\* C7 amended: the same for every non-empty tag that is not one of the five
\* hazards; the empty string is handled as an absent hazard.
C7_NonEmptyUnknownTag == UnknownTagFallsBack(UnknownTags)

\* a result for "tsunami" on an extreme observation
C7_Witness ==
    /\ pc = "returned"
    /\ request.risk_type = "tsunami"
    /\ cd.temperature = 200
    /\ response.risk_type = "tsunami"
    /\ response.risk_score = 800

\* the seasons of the claim
InSeason(rt, m) ==
    \/ rt = "heatwave" /\ m \in {6, 7, 8}
    \/ rt = "flood" /\ m \in {3, 4, 5}
    \/ rt = "drought" /\ m \in {7, 8, 9}
    \/ rt = "storm" /\ m \in {9, 10, 11}

\* C8: the seasonal adjustment added to a score lies in [0.05, 0.2] when the
\* hazard is in season in the current month and in [-0.05, 0.05] for every
\* other pair (wildfire in every month); the sum, clamped to [0, 1], is the
\* final score.
C8_SeasonalAdjustment ==
    Len(seasonal_adjustment) = 1 =>
        LET a == seasonal_adjustment[1]
            s == final_score[1] + MilliToScore(a)
        IN  /\ InSeason(risk_type, month) => 50 * DrawDen <= a /\ a <= 200 * DrawDen
            /\ ~InSeason(risk_type, month) => -50 * DrawDen <= a /\ a <= 50 * DrawDen
            /\ risk_score = (IF s < 0 THEN 0 ELSE IF s > ScoreScale THEN ScoreScale ELSE s)

\* heatwave scored in July with the largest bonus, the sum cut to 1
C8_Witness ==
    /\ pc = "level"
    /\ risk_type = "heatwave" /\ month = 7
    /\ seasonal_adjustment = <<200 * DrawDen>>
    /\ final_score[1] + MilliToScore(200 * DrawDen) > ScoreScale
    /\ risk_score = ScoreScale


\* C9: concurrent predict invocations share no mutable generator state, so
\* the random values a request draws are the same under every interleaving
\* with other requests.  A request handled first draws from the generator's
\* initial state, so the values are the same under every interleaving only
\* if every request starts drawing from that state.
C9_DrawsIndependentOfOtherCalls ==
    \A c \in Calls : drawsFrom[c] # -1 => drawsFrom[c] = 0

\* C10: predict returns a result with all six fields populated or fails with
\* the original exception, unchanged; the route answers a failure with status
\* 500 and a message naming it, never with a partial result.
C10_AllOrNothing ==
    /\ response # NoResponse => FullyPopulated(response)
    /\ pc = "returned" => FullyPopulated(response) /\ raised = NoneStr
    /\ pc = "router_except" =>
         raised # NoneStr /\ raised = origin /\ response = NoResponse
    /\ outcome.status \in {0, 200, 500}
    /\ outcome.status = 200 => FullyPopulated(outcome.body) /\ origin = NoneStr
    /\ outcome.status = 500 =>
         /\ outcome.body = NoResponse
         /\ origin # NoneStr
         /\ outcome.detail = <<"Prediction failed: ", origin>>

\* a request that failed inside predict_risk after the confidence was computed
C10_Witness ==
    /\ outcome.status = 500
    /\ origin \in ServiceExceptions
    /\ confidence # NoneNum
    /\ response = NoResponse

\* the observation lies inside the nominal ranges
InNominal(c) ==
    /\ -10 <= c.temperature /\ c.temperature <= 50
    /\ 0 <= c.precipitation /\ c.precipitation <= 100
    /\ 0 <= c.humidity /\ c.humidity <= 100
    /\ 0 <= c.wind_speed /\ c.wind_speed <= 100

\* C11: for each of the five hazards and every observation inside the nominal
\* ranges the weighted sum (rawScore) lies in [-1, 1], so the base score
\* (rawScore + 1) / 2 lies in [0, 1] before the random multiplier is applied.
C11_RawScoreInRange ==
    pc = "level" /\ risk_type \in HazardSet /\ InNominal(cd) =>
        /\ -(NormScale * WeightScale) <= WeightedScore(cd, risk_type)
        /\ WeightedScore(cd, risk_type) <= NormScale * WeightScale
        /\ 0 <= BaseScore(cd, risk_type)
        /\ BaseScore(cd, risk_type) <= 2 * NormScale * WeightScale

\* flood scored on the observation with every field at its upper end:
\* rawScore = 1 and the base score is 1
C11_Witness ==
    /\ pc = "level" /\ risk_type = "flood"
    /\ cd = [temperature |-> 50, precipitation |-> 100, humidity |-> 100,
             wind_speed |-> 100]
    /\ WeightedScore(cd, risk_type) = NormScale * WeightScale
    /\ BaseScore(cd, risk_type) = 2 * NormScale * WeightScale

\* the confidences an observation can get, from the observation alone
ConfidenceValues(c) ==
    {Min(Max((750 - 100 * ExtremeCount(c)) * (900 * DrawDen + 200 * u), 300 * ConfUnit),
         950 * ConfUnit) : u \in Draws}

\* C12: the confidence depends on the observation only: for a fixed
\* observation the set of confidences a call can return is the same for every
\* hazard tag, known or not, and is not narrowed by the risk score drawn in
\* the same call.
C12_ConfidenceOfObservationOnly ==
    confidence # NoneNum =>
        /\ confidence \in ConfidenceValues(cd)
        /\ \A rt \in NamedTags :
             {calculate_confidence(cd, rt, u) : u \in Draws} = ConfidenceValues(cd)

\* an unknown tag, the lowest fallback score, the highest confidence of the
\* observation
C12_Witness ==
    /\ pc = "respond"
    /\ request.risk_type = "tsunami"
    /\ cd.temperature = 20 /\ cd.precipitation = 50 /\ cd.wind_speed = 50
    /\ 10 * risk_score = 2 * ScoreScale
    /\ confidence = 750 * 1100 * DrawDen

\* what C13 says when the tags in T count as supplied
PassesThrough(T) ==
    /\ request.risk_type \in T /\ pc \in {"level", "confidence", "respond", "returned"} =>
         /\ risk_type = request.risk_type
         /\ pc = "level" =>
              /\ rngPos = drawsFrom[active] + ScoreDraws(request.risk_type)
              /\ risk_score \in PossibleScores(cd, request.risk_type, month)
    /\ pc = "returned" =>
         /\ response.region = request.region
         /\ request.risk_type \in T => response.risk_type = request.risk_type
         /\ request.risk_type \notin T => response.risk_type \in HazardSet

\* C13 as stated: the region of the result is the region of the request; a
\* hazard tag that is supplied, any string, is the risk_type of the result
\* and the hazard scored; only an absent tag is replaced by one of the five
\* hazards.
C13_AnySuppliedTag == PassesThrough(NamedTags \cup {""})

\* C13 amended: the same for every non-empty tag; the empty string is
\* replaced by one of the five hazards as an absent tag is.
C13_NonEmptyTag == PassesThrough(NamedTags)

\* a result for region r2 that kept the unknown tag it was asked for
C13_Witness ==
    /\ pc = "returned"
    /\ request.region = "r2" /\ response.region = "r2"
    /\ request.risk_type = "tsunami" /\ response.risk_type = "tsunami"

\* C15: the risk_label of a result is the level of the risk_score of that
\* result: _get_risk_level of the rounded score is the label.
C15_LabelOfReturnedScore ==
    pc = "returned" =>
        response.risk_label = get_risk_level(response.risk_score * ScoreUnit)

\* C16: a call without a hazard returns the score the selected hazard had in
\* the selection, so no selection score is above the returned score.
C16_ReturnsSelectionScore ==
    pc = "level" /\ Falsy(request.risk_type) => risk_score = primary_score

KeyOf(caller) == IF caller = NoneStr THEN "unknown" ELSE caller
\* how many requests of key k were passed on with a timestamp in [t - 60, t]
AdmittedIn(k, t) ==
    Cardinality({i \in 1..Len(admitted[k]) :
                    t - 60 <= admitted[k][i] /\ admitted[k][i] <= t})

\* the times t that need looking at: a window [t - 60, t] holding some passed
\* requests holds no more of them than the window that starts at the first
WindowEnds(k) == {now} \cup {admitted[k][i] + 60 : i \in 1..Len(admitted[k])}

\* C17: while the clock does not go back, for every client and every time t at
\* most calls_per_minute of its requests were passed on with a timestamp in
\* [t - 60 s, t], and its deque never holds more than calls_per_minute entries.
C17_RateLimitBound ==
    \A k \in ClientIps :
        /\ Len(requests[k]) <= CallsPerMinute
        /\ \A t \in WindowEnds(k) : AdmittedIn(k, t) <= CallsPerMinute

\* a client at its limit whose oldest entry is exactly 60 s old is rejected
C17_Witness ==
    /\ last.status = 429
    /\ last.caller = "10.0.0.1"
    /\ Len(requests["10.0.0.1"]) = CallsPerMinute
    /\ Head(requests["10.0.0.1"]) = now - 60
    /\ AdmittedIn("10.0.0.1", now) = CallsPerMinute

\* C18: a rejected request is not passed on and not recorded in the deque,
\* and a request made more than 60 s after the oldest entry still in the
\* client's deque is passed on, however many were rejected before it.
C18_RejectedLeavesNoTrace ==
    [][now' = now =>
        LET k == KeyOf(last'.caller)
        IN  /\ last'.status = 429 =>
                 /\ ~last'.forwarded
                 /\ admitted' = admitted
                 /\ Len(requests'[k]) <= Len(requests[k])
                 /\ \A i \in 1..Len(requests'[k]) :
                      requests'[k][i] = requests[k][i + Len(requests[k]) - Len(requests'[k])]
            /\ requests[k] # <<>> /\ now > Head(requests[k]) + 60 =>
                 /\ last'.status = 200
                 /\ last'.forwarded
                 /\ admitted'[k] = Append(admitted[k], now)]_vars

\* a client that was rejected is passed on again, its deque holding the new
\* entry only
C18_Witness ==
    /\ last.recovered
    /\ last.status = 200
    /\ last.caller = "10.0.0.1"
    /\ requests["10.0.0.1"] = <<now>>
    /\ Len(admitted["10.0.0.1"]) = CallsPerMinute + 1

\* C19: handling a request of one client changes the deque of that client
\* only, and a request is rejected only when calls_per_minute requests of its
\* own client were passed on in the last 60 s.
C19_ClientsIsolated ==
    /\ [][\A k \in ClientIps :
            k # KeyOf(last'.caller) =>
                requests'[k] = requests[k] /\ admitted'[k] = admitted[k]]_vars
    /\ [](last.status = 429 =>
            AdmittedIn(KeyOf(last.caller), last.time) >= CallsPerMinute)

\* one client is blocked and, at the same time, another is passed on
C19_Witness ==
    /\ "10.0.0.1" \in last.blocked
    /\ Len(requests["10.0.0.1"]) = CallsPerMinute
    /\ last.caller = "10.0.0.2"
    /\ last.status = 200
    /\ requests["10.0.0.2"] = <<now>>
    /\ Head(requests["10.0.0.1"]) >= now - 60

\* C20: the history route answers a name that has no Region row with status
\* 404 and detail "Region not found", and answers 500 only when something
\* else failed.
C20_UnknownRegionIs404 ==
    history_answer.status # 0 =>
        /\ history_answer.caught \notin DbExceptions
             /\ {r \in regions : r.name = history_answer.region_name} = {} =>
               /\ history_answer.status = 404
               /\ history_answer.detail = <<"Region not found">>
        /\ history_answer.status = 500 => history_answer.caught \in DbExceptions

\* C21: every request the application receives, one the rate limiter rejects
\* included, gets a request entry and a response or error entry in the log of
\* LoggingMiddleware.
C21_EveryRequestLogged ==
    http.dir = "answered" =>
        /\ Len(http.log) = 2
        /\ http.log[1] = "Request"
        /\ http.log[2] \in {"Response", "Error"}

\* C22: GET /actions/categories is served by get_action_categories and
\* returns the category values, GET /actions/priorities by
\* get_action_priorities and returns the priority values.
C22_LiteralRoutesServed ==
    http.dir = "answered" /\ http.exc = NoneStr =>
        /\ http.path = <<"actions", "categories">> =>
             /\ http.handler = "get_action_categories"
             /\ http.status = 200
             /\ http.body = <<"preparation", "response", "recovery", "mitigation">>
        /\ http.path = <<"actions", "priorities">> =>
             /\ http.handler = "get_action_priorities"
             /\ http.status = 200
             /\ http.body = <<"low", "medium", "high", "critical">>

\* the rows of a name
RowsNamed(name) == {r \in regions : r.name = name}

\* C23: there is never more than one Region row of a name; a request naming
\* an existing region creates no row and changes none, a request naming an
\* unseen region creates exactly one row, of that name, before it is scored,
\* and every request being scored has exactly one row of its name.
C23_RegionGetOrCreate ==
    /\ [](\A name \in RegionNames : Cardinality(RowsNamed(name)) <= 1)
    /\ [](pc \in ServicePcs \cup {"returned"} /\ active # 0 =>
            /\ RowsNamed(request.region) = {region}
            /\ region.id # NoneNum)
    /\ [](origin # "IntegrityError")
    /\ [][regions \subseteq regions']_vars
    /\ [][pc = "router" /\ pc' = "predict_risk" =>
            IF RowsNamed(request.region) # {}
            THEN regions' = regions
            ELSE /\ Cardinality(regions') = Cardinality(regions) + 1
                 /\ \A r \in regions' \ regions : r.name = request.region]_vars

\* the second request names the region the first created: still one row
C23_Witness ==
    /\ pc = "returned"
    /\ served # {}
    /\ request.region = "r1"
    /\ regions = {[id |-> 1, name |-> "r1", country |-> "Unknown", latitude |-> 0,
                   longitude |-> 0]}
    /\ region.id = 1
    /\ origin = NoneStr

\* C24: for every score in [0, 1] map_router.generate_risk_level, the level
\* assignment of seed_predictions and PredictionService._get_risk_level give
\* the same level.
C24_SameBandsEverywhere ==
    /\ pc = "classified" /\ levels.map_router # NoneStr => levels.map_router = risk_level
    /\ pc = "classified" /\ levels.seed_database # NoneStr =>
         levels.seed_database = risk_level

====
